---- MODULE Spec2Model ----
(***************************************************************************)
(* A model of the price-time-priority limit order book of                  *)
(* src/orderbook.hpp (class OrderBook).                                     *)
(*                                                                         *)
(* State: the two price-level maps (bids_, asks_), the order registry      *)
(* (orders_), the atomic orderCount_, the best-price hints and the         *)
(* ordersProcessed statistic.  A level queue holds Order* pointers into    *)
(* the registry; a pointer to the record stored under key k is modelled    *)
(* as k itself, and dereferencing it reads orders[k].  The registry is     *)
(* declared in order_book.hpp; it is taken to keep its records in place    *)
(* when it grows, as std::unordered_map does.                              *)
(*                                                                         *)
(* Every public operation holds mutex_ from its first to its last line,    *)
(* so submitOrder and cancelOrder are one step each.  modifyOrder and      *)
(* cancelAll are composed of such steps; Modify and CancelAll run them     *)
(* with no other thread in between.  That is specification Spec.           *)
(*                                                                         *)
(* Specification SpecConc runs the operations on threads.  A thread takes  *)
(* mutex_ where the code constructs its lock_guard and gives it back where *)
(* the function returns; between the two, submitOrder is split at the      *)
(* fills, each delivered to the fill observer in a step of its own.        *)
(*                                                                         *)
(* Clock readings (timestamps, avgProcessingTimeNs) and fillsGenerated     *)
(* are not modelled: no branch of the code reads them.                     *)
(***************************************************************************)
EXTENDS Integers, Sequences, FiniteSets, TLC

\* ------------------------------------------------------------------ bounds
MaxId == 4
MaxPrice == 2
MaxQty == 2
MaxOwner == 2
MaxProcessed == 3
\* SpecConc: the threads, and the orders rested before they start.
MaxThreads == 2
MaxSetup == 2

Ids == 1..MaxId
Prices == 1..MaxPrice
Qtys == 0..MaxQty
Owners == 1..MaxOwner
Sides == {"Buy", "Sell"}
TIFs == {"GTC", "IOC", "FOK", "GFD"}
\* Order::type is copied with the order and never read.
OrderTypes == {"Limit"}

\* The values the best-price hints hold before any order rested: below
\* every bid price and above every ask price.
InitBestBidTick == 0
InitBestAskTick == MaxPrice + 1

\* book: the OrderBook object, its fields bids_, asks_, orders_,
\*   orderCount_, bestBidTick_, bestAskTick_ and stats_.ordersProcessed.
\* thr: for each thread, the call it is in and the call's locals.
\* mutex: the thread that holds mutex_, or NoThread.
\* observed: what the fill observer (fillCb_) has received, each fill
\*   recorded as the thread whose submission made it.
VARIABLES book, thr, mutex, observed

vars == <<book, thr, mutex, observed>>

Threads == 1..MaxThreads
\* mutex_ unlocked.
NoThread == 0

\* ------------------------------------------------------- container helpers
EmptyMap == [k \in {} |-> 0]

\* std::map / std::unordered_map erase(key)
MapErase(m, k) == [x \in (DOMAIN m) \ {k} |-> m[x]]

\* operator[] assignment: inserts the key when absent
MapPut(m, k, v) == [x \in (DOMAIN m) \cup {k} |-> IF x = k THEN v ELSE m[x]]

SetMax(S) == CHOOSE x \in S : \A y \in S : y <= x
SetMin(S) == CHOOSE x \in S : \A y \in S : x <= y

Min(a, b) == IF a < b THEN a ELSE b

RECURSIVE SumSeq(_)
SumSeq(s) == IF s = <<>> THEN 0 ELSE Head(s) + SumSeq(Tail(s))

\* ------------------------------------------------------------- iterators
\* An iterator into a level map is <<p>> (at the level of price p) or <<>>
\* (end() / rend()).
begin(levels) ==
    IF DOMAIN levels = {} THEN <<>> ELSE <<SetMin(DOMAIN levels)>>

\* A slip: the reverse walk started at the lowest price.
rbeginLowest(levels) ==
    IF DOMAIN levels = {} THEN <<>> ELSE <<SetMin(DOMAIN levels)>>

rbegin(levels) ==
    IF DOMAIN levels = {} THEN <<>> ELSE <<SetMax(DOMAIN levels)>>

\* ++it on a forward iterator, and the iterator map::erase(it) returns
next(levels, it) ==
    LET above == {k \in DOMAIN levels : k > it[1]}
    IN  IF above = {} THEN <<>> ELSE <<SetMin(above)>>

\* ++it on a reverse iterator
rnext(levels, it) ==
    LET below == {k \in DOMAIN levels : k < it[1]}
    IN  IF below = {} THEN <<>> ELSE <<SetMax(below)>>

\* ------------------------------------------------------------- matchLoop
\* A slip: the owner check left out.
isSelfMatchNever(restingOrder, incomingOrder) == FALSE

\* restingOrder->ownerId == incomingOrder.ownerId
isSelfMatch(restingOrder, incomingOrder) ==
    restingOrder.ownerId = incomingOrder.ownerId

\* std::min(remaining, restingOrder->quantity)
fillQtyOf(remaining, restingOrder) == Min(remaining, restingOrder.quantity)

\* The inner while loop over one level's queue.  st is
\* [queue, orders, remaining, fills]; price is it->first.
RECURSIVE matchQueue(_, _, _)
matchQueue(st, incomingOrder, price) ==
    IF st.remaining > 0 /\ st.queue # <<>>
    THEN LET restingOrder == st.orders[Head(st.queue)]
         IN  IF isSelfMatch(restingOrder, incomingOrder)
             THEN st
             ELSE LET fillQty == fillQtyOf(st.remaining, restingOrder)
                      fill == [makerOrderId |-> restingOrder.id,
                               takerOrderId |-> incomingOrder.id,
                               quantity |-> fillQty,
                               priceTick |-> price]
                      left == restingOrder.quantity - fillQty
                      reduced == [st.orders EXCEPT
                                     ![Head(st.queue)].quantity = left]
                  IN  matchQueue(
                        [queue |-> IF left = 0 THEN Tail(st.queue)
                                               ELSE st.queue,
                         orders |-> IF left = 0
                                    THEN MapErase(reduced, restingOrder.id)
                                    ELSE reduced,
                         remaining |-> st.remaining - fillQty,
                         fills |-> Append(st.fills, fill)],
                        incomingOrder, price)
    ELSE st

\* One level visited: the level map after the inner loop, the level erased
\* when its queue became empty.
levelAfter(levels, price, q) ==
    IF q.queue = <<>> THEN MapErase(levels, price)
                      ELSE [levels EXCEPT ![price] = q.queue]

\* Buy order: the outer while loop over asks, lowest price first.
\* st is [levels, orders, remaining, fills, it].
RECURSIVE matchBuy(_, _)
matchBuy(st, incomingOrder) ==
    IF /\ st.remaining > 0
       /\ st.it # <<>>
       /\ st.it[1] <= incomingOrder.priceTick
    THEN LET price == st.it[1]
             q == matchQueue([queue |-> st.levels[price],
                              orders |-> st.orders,
                              remaining |-> st.remaining,
                              fills |-> st.fills], incomingOrder, price)
         IN  matchBuy([levels |-> levelAfter(st.levels, price, q),
                       orders |-> q.orders,
                       remaining |-> q.remaining,
                       fills |-> q.fills,
                       it |-> next(st.levels, st.it)], incomingOrder)
    ELSE st

\* Sell order: the outer while loop over bids, highest price first; after
\* erasing an emptied level the iteration restarts from rbegin().
RECURSIVE matchSell(_, _)
matchSell(st, incomingOrder) ==
    IF /\ st.remaining > 0
       /\ st.it # <<>>
       /\ st.it[1] >= incomingOrder.priceTick
    THEN LET price == st.it[1]
             q == matchQueue([queue |-> st.levels[price],
                              orders |-> st.orders,
                              remaining |-> st.remaining,
                              fills |-> st.fills], incomingOrder, price)
             after == levelAfter(st.levels, price, q)
         IN  matchSell([levels |-> after,
                        orders |-> q.orders,
                        remaining |-> q.remaining,
                        fills |-> q.fills,
                        it |-> IF q.queue = <<>> THEN rbegin(after)
                                                 ELSE rnext(st.levels, st.it)],
                       incomingOrder)
    ELSE st

\* matchLoop(incomingOrder, remaining, fills): the book after matching, the
\* remaining quantity and the fills emitted, in order.  Each fill goes to
\* the caller's list (when given) and to fillCb_ (when set) at the same
\* point, so one sequence stands for both.
matchLoop(b, incomingOrder, remaining) ==
    IF incomingOrder.side = "Buy"
    THEN LET r == matchBuy([levels |-> b.asks, orders |-> b.orders,
                            remaining |-> remaining, fills |-> <<>>,
                            it |-> begin(b.asks)], incomingOrder)
         IN  [book |-> [b EXCEPT !.asks = r.levels, !.orders = r.orders],
              remaining |-> r.remaining, fills |-> r.fills]
    ELSE LET r == matchSell([levels |-> b.bids, orders |-> b.orders,
                             remaining |-> remaining, fills |-> <<>>,
                             it |-> rbegin(b.bids)], incomingOrder)
         IN  [book |-> [b EXCEPT !.bids = r.levels, !.orders = r.orders],
              remaining |-> r.remaining, fills |-> r.fills]

\* ------------------------------------------------------------- restOrder
\* A slip: the order stored with its submitted quantity.
restingRecordFull(order, remaining) == order

\* The record restOrder stores: the order with quantity = remaining.
restingRecord(order, remaining) == [order EXCEPT !.quantity = remaining]

\* levels[order.priceTick].push_back(orderPtr): creates the level if absent
pushBack(levels, price, ptr) ==
    IF price \in DOMAIN levels
    THEN [levels EXCEPT ![price] = Append(@, ptr)]
    ELSE MapPut(levels, price, <<ptr>>)

\* A slip: the hint stored without the comparison, so it follows the price
\* of the order rested last.
restOrderLastPrice(b, order, remaining) ==
    LET stored == [b EXCEPT
                      !.orders = MapPut(b.orders, order.id,
                                        restingRecord(order, remaining)),
                      !.orderCount = b.orderCount + 1]
    IN  IF order.side = "Buy"
        THEN [stored EXCEPT
                 !.bids = pushBack(b.bids, order.priceTick, order.id),
                 !.bestBidTick = order.priceTick]
        ELSE [stored EXCEPT
                 !.asks = pushBack(b.asks, order.priceTick, order.id),
                 !.bestAskTick = order.priceTick]

restOrder(b, order, remaining) ==
    LET stored == [b EXCEPT
                      !.orders = MapPut(b.orders, order.id,
                                        restingRecord(order, remaining)),
                      !.orderCount = b.orderCount + 1]
    IN  IF order.side = "Buy"
        THEN [stored EXCEPT
                 !.bids = pushBack(b.bids, order.priceTick, order.id),
                 !.bestBidTick = IF order.priceTick > b.bestBidTick
                                 THEN order.priceTick ELSE b.bestBidTick]
        ELSE [stored EXCEPT
                 !.asks = pushBack(b.asks, order.priceTick, order.id),
                 !.bestAskTick = IF order.priceTick < b.bestAskTick
                                 THEN order.priceTick ELSE b.bestAskTick]

\* ---------------------------------------------------------- canFullyFill
\* The walk over one queue (the inner for loop).  The result is
\* [done, needed]: done when the loop returned true.
RECURSIVE fillableInQueue(_, _, _, _)
fillableInQueue(queue, orders, order, needed) ==
    IF queue = <<>>
    THEN [done |-> FALSE, needed |-> needed]
    ELSE LET restingOrder == orders[Head(queue)]
         IN  IF isSelfMatch(restingOrder, order)
             THEN fillableInQueue(Tail(queue), orders, order, needed)
             ELSE IF restingOrder.quantity >= needed
                  THEN [done |-> TRUE, needed |-> needed]
                  ELSE IF needed - restingOrder.quantity = 0
                       THEN [done |-> TRUE, needed |-> 0]
                       ELSE fillableInQueue(Tail(queue), orders, order,
                                            needed - restingOrder.quantity)

\* The walk over the asks, lowest first, for a buy.
RECURSIVE fillableBuy(_, _, _, _)
fillableBuy(b, order, it, needed) ==
    IF it = <<>> \/ it[1] > order.priceTick
    THEN needed = 0
    ELSE LET r == fillableInQueue(b.asks[it[1]], b.orders, order, needed)
         IN  r.done \/ fillableBuy(b, order, next(b.asks, it), r.needed)

\* The walk over the bids, highest first, for a sell.
RECURSIVE fillableSell(_, _, _, _)
fillableSell(b, order, it, needed) ==
    IF it = <<>> \/ it[1] < order.priceTick
    THEN needed = 0
    ELSE LET r == fillableInQueue(b.bids[it[1]], b.orders, order, needed)
         IN  r.done \/ fillableSell(b, order, rnext(b.bids, it), r.needed)

\* A slip: the pre-check left out.
canFullyFillAlways(b, order) == TRUE

\* A slip: the pre-check looks at the best contra level only.
canFullyFillBestOnly(b, order) ==
    LET levels == IF order.side = "Buy" THEN b.asks ELSE b.bids
        it == IF order.side = "Buy" THEN begin(levels) ELSE rbegin(levels)
    IN  IF it = <<>>
           \/ (order.side = "Buy" /\ it[1] > order.priceTick)
           \/ (order.side = "Sell" /\ it[1] < order.priceTick)
        THEN order.quantity = 0
        ELSE LET r == fillableInQueue(levels[it[1]], b.orders, order,
                                      order.quantity)
             IN  r.done \/ r.needed = 0

canFullyFill(b, order) ==
    IF order.side = "Buy"
    THEN fillableBuy(b, order, begin(b.asks), order.quantity)
    ELSE fillableSell(b, order, rbegin(b.bids), order.quantity)

\* ----------------------------------------------------------- submitOrder
\* A call's result is [book, ret, fills, remaining, reached]; reached tells
\* where the call returned: "rejected" (the FOK pre-check), "discarded"
\* (the early return for an IOC/FOK residual) or "processed" (the end of the
\* function, after the statistics update).

\* A slip: the residual rested without the test remaining > 0.
afterMatchRestsAlways(m, o) ==
    IF m.remaining > 0 /\ o.tif \in {"IOC", "FOK"}
    THEN [book |-> m.book, ret |-> TRUE, fills |-> m.fills,
          remaining |-> m.remaining, reached |-> "discarded"]
    ELSE LET rested == IF o.tif \in {"IOC", "FOK"}
                       THEN m.book
                       ELSE restOrder(m.book, o, m.remaining)
         IN  [book |-> [rested EXCEPT !.ordersProcessed = @ + 1],
              ret |-> TRUE, fills |-> m.fills,
              remaining |-> m.remaining, reached |-> "processed"]

\* What follows matchLoop, m being its result: the residual is discarded
\* or rested, and ordersProcessed is incremented unless the call returned
\* early.
afterMatch(m, o) ==
    IF m.remaining > 0 /\ o.tif \in {"IOC", "FOK"}
    THEN [book |-> m.book, ret |-> TRUE, fills |-> m.fills,
          remaining |-> m.remaining, reached |-> "discarded"]
    ELSE LET rested == IF m.remaining > 0
                       THEN restOrder(m.book, o, m.remaining)
                       ELSE m.book
         IN  [book |-> [rested EXCEPT !.ordersProcessed = @ + 1],
              ret |-> TRUE, fills |-> m.fills,
              remaining |-> m.remaining, reached |-> "processed"]

submitOrder(b, o) ==
    IF o.tif = "FOK" /\ ~canFullyFill(b, o)
    THEN [book |-> b, ret |-> FALSE, fills |-> <<>>,
          remaining |-> o.quantity, reached |-> "rejected"]
    ELSE afterMatch(matchLoop(b, o, o.quantity), o)

\* ----------------------------------------------------------- cancelOrder
\* queue.erase(std::remove_if(... o->id == orderId ...), queue.end())
\* A slip: the front of the queue popped, whichever order it is.
removeFromQueueFront(queue, orders, orderId) == Tail(queue)

removeFromQueue(queue, orders, orderId) ==
    SelectSeq(queue, LAMBDA ptr : orders[ptr].id # orderId)

\* A slip: the queue entry left in place.
cancelInLevelsKeep(levels, orders, order, orderId) == levels

cancelInLevels(levels, orders, order, orderId) ==
    IF order.priceTick \in DOMAIN levels
    THEN LET queue == removeFromQueue(levels[order.priceTick], orders,
                                      orderId)
         IN  IF queue = <<>> THEN MapErase(levels, order.priceTick)
                             ELSE [levels EXCEPT ![order.priceTick] = queue]
    ELSE levels

\* The result is [book, ret].
cancelOrder(b, orderId) ==
    IF orderId \notin DOMAIN b.orders
    THEN [book |-> b, ret |-> FALSE]
    ELSE LET order == b.orders[orderId]
             unlinked ==
                 IF order.side = "Buy"
                 THEN [b EXCEPT !.bids = cancelInLevels(b.bids, b.orders,
                                                        order, orderId)]
                 ELSE [b EXCEPT !.asks = cancelInLevels(b.asks, b.orders,
                                                        order, orderId)]
         IN  [book |-> [unlinked EXCEPT
                           !.orders = MapErase(b.orders, orderId),
                           !.orderCount = b.orderCount - 1],
              ret |-> TRUE]

\* ----------------------------------------------------------- modifyOrder
\* Run with no other thread between its three locked sections.  The result
\* is [book, found, fills, ret]: fills is the list returned, ret what the
\* resubmission returned (the code drops it).
\* A slip: a change that keeps the price applied to the resting record in
\* place, the order keeping its place in the queue.
modifyOrderInPlace(b, orderId, newPrice, newQty) ==
    IF orderId \notin DOMAIN b.orders
    THEN [book |-> b, found |-> FALSE, fills |-> <<>>, ret |-> FALSE]
    ELSE IF newPrice = b.orders[orderId].priceTick /\ newQty > 0
    THEN [book |-> [b EXCEPT !.orders[orderId].quantity = newQty,
                             !.ordersProcessed = @ + 1],
          found |-> TRUE, fills |-> <<>>, ret |-> TRUE]
    ELSE LET sub == submitOrder(cancelOrder(b, orderId).book,
                                [b.orders[orderId] EXCEPT
                                    !.priceTick = newPrice,
                                    !.quantity = newQty])
         IN  [book |-> sub.book, found |-> TRUE, fills |-> sub.fills,
              ret |-> sub.ret]

\* A slip: the resubmission called without the list, so no fill is returned.
modifyOrderDropsFills(b, orderId, newPrice, newQty) ==
    IF orderId \notin DOMAIN b.orders
    THEN [book |-> b, found |-> FALSE, fills |-> <<>>, ret |-> FALSE]
    ELSE LET sub == submitOrder(cancelOrder(b, orderId).book,
                                [b.orders[orderId] EXCEPT
                                    !.priceTick = newPrice,
                                    !.quantity = newQty])
         IN  [book |-> sub.book, found |-> TRUE, fills |-> <<>>,
              ret |-> sub.ret]

modifyOrder(b, orderId, newPrice, newQty) ==
    IF orderId \notin DOMAIN b.orders
    THEN [book |-> b, found |-> FALSE, fills |-> <<>>, ret |-> FALSE]
    ELSE LET originalOrder == b.orders[orderId]
             cancelled == cancelOrder(b, orderId).book
             modifiedOrder == [originalOrder EXCEPT !.priceTick = newPrice,
                                                    !.quantity = newQty]
             sub == submitOrder(cancelled, modifiedOrder)
         IN  [book |-> sub.book, found |-> TRUE, fills |-> sub.fills,
              ret |-> sub.ret]

\* ------------------------------------------------------------- cancelAll
\* The ids collected under the lock.
\* A slip: the ids of the other side collected.
toCancelOfOtherSide(b, side) ==
    {id \in DOMAIN b.orders : b.orders[id].side # side}

toCancelOf(b, side) == {id \in DOMAIN b.orders : b.orders[id].side = side}

\* for (id : toCancel) cancelOrder(id).  The registry is an unordered map,
\* so the order of the ids is unspecified; CHOOSE stands for that order.
RECURSIVE cancelEach(_, _)
cancelEach(b, toCancel) ==
    IF toCancel = {} THEN b
    ELSE LET id == CHOOSE x \in toCancel : TRUE
         IN  cancelEach(cancelOrder(b, id).book, toCancel \ {id})

cancelAll(b, side) == cancelEach(b, toCancelOf(b, side))

\* ---------------------------------------------------------------- actions
\* The book after construction: no levels, no orders.
\* A local that holds no order yet.
NoOrder ==
    [id |-> 0, side |-> "Buy", priceTick |-> 0, quantity |-> 0,
     type |-> "Limit", tif |-> "GTC", ownerId |-> 0]

\* A thread that has called nothing.
Idle ==
    [pc |-> "idle", op |-> "none", o |-> NoOrder, originalOrder |-> NoOrder,
     orderId |-> 0, found |-> FALSE, cancelled |-> FALSE, ret |-> "none",
     remaining |-> 0, delivered |-> 0, rested |-> FALSE, toCancel |-> {}]

Init ==
    /\ book = [bids |-> EmptyMap, asks |-> EmptyMap, orders |-> EmptyMap,
               orderCount |-> 0,
               bestBidTick |-> InitBestBidTick,
               bestAskTick |-> InitBestAskTick,
               ordersProcessed |-> 0]
    /\ thr = [t \in Threads |-> Idle]
    /\ mutex = NoThread
    /\ observed = <<>>

\* The id of a new order.  The caller assigns it, and it is not the id of a
\* resting order.  The book only hashes ids and compares them for equality,
\* so the least id not resting stands for every such id.
FreshIds(b) ==
    IF Ids \ DOMAIN b.orders = {} THEN {}
    ELSE {SetMin(Ids \ DOMAIN b.orders)}

\* The orders a caller may submit to book b.
Incoming(b) ==
    [id : FreshIds(b), side : Sides, priceTick : Prices,
     quantity : Qtys, type : OrderTypes, tif : TIFs, ownerId : Owners]

\* The arguments of modifyOrder.
ModifyArgs == [orderId : Ids, newPrice : Prices, newQty : Qtys]

\* ordersProcessed grows without bound; the calls taken are those that
\* leave it within MaxProcessed.
Capped(b) == b.ordersProcessed <= MaxProcessed

\* submitOrder(o, fills)
Submit ==
    \E o \in Incoming(book) :
        LET after == submitOrder(book, o).book
        IN  Capped(after) /\ book' = after
                          /\ UNCHANGED <<thr, mutex, observed>>

\* cancelOrder(orderId)
Cancel ==
    \E orderId \in Ids :
        /\ book' = cancelOrder(book, orderId).book
        /\ UNCHANGED <<thr, mutex, observed>>

\* modifyOrder(orderId, newPrice, newQty)
Modify ==
    \E a \in ModifyArgs :
        LET after == modifyOrder(book, a.orderId, a.newPrice, a.newQty).book
        IN  Capped(after) /\ book' = after
                          /\ UNCHANGED <<thr, mutex, observed>>

\* cancelAll(side)
CancelAll ==
    \E side \in Sides :
        /\ book' = cancelAll(book, side)
        /\ UNCHANGED <<thr, mutex, observed>>

Next == Submit \/ Cancel \/ Modify \/ CancelAll

Spec == Init /\ [][Next]_vars

\* ---------------------------------------------------------------- threads
\* A slip: the operation run without taking the mutex.
canLockAlways(holder) == TRUE

\* std::lock_guard<std::mutex> lock(mutex_): the thread goes on when no
\* thread holds the mutex.
canLock(holder) == holder = NoThread

\* A slip: the order resubmitted only when modify's own cancel removed it.
resubmitsIfCancelled(found, cancelled) == found /\ cancelled

\* modifyOrder's if (found): the cancel's result is not looked at.
resubmits(found, cancelled) == found

\* The orders rested before the threads start, and the orders a thread
\* submits.
SetupOrders(b) == {o \in Incoming(b) : o.tif = "GTC" /\ o.quantity > 0}

ThreadOrders(b) == {o \in Incoming(b) : o.tif = "IOC" /\ o.quantity > 0}

\* The thread's call has returned: its locals are gone.  What is kept is
\* what the caller knows of the call: the operation, its orderId argument
\* and its result, for a modify the order it resubmitted, and whether and
\* how its submitOrder ended.
Returned(l) ==
    [Idle EXCEPT !.pc = "done", !.op = l.op, !.orderId = l.orderId,
                 !.ret = l.ret, !.found = l.found,
                 !.cancelled = l.cancelled,
                 !.o = IF l.op = "modify" THEN l.o ELSE NoOrder,
                 !.delivered = l.delivered, !.rested = l.rested]

\* What a call returned, as the thread keeps it: "none" before it returns.
Result(value) == IF value THEN "true" ELSE "false"

\* Thread t makes its call.  The threads are alike, so they are numbered in
\* the order in which they start.
Starts(t) ==
    /\ thr[t].pc = "idle"
    /\ \A u \in Threads : u < t => thr[u].pc # "idle"

\* An order rested by the one thread that runs before the others start.
SetupSubmit ==
    /\ \A t \in Threads : thr[t].pc = "idle"
    /\ book.ordersProcessed < MaxSetup
    /\ \E o \in SetupOrders(book) : book' = submitOrder(book, o).book
    /\ UNCHANGED <<thr, mutex, observed>>

\* submitOrder up to matchLoop: the lock taken, the FOK pre-check run.
\* A refused order returns false at once.
enterSubmit(t, op, o) ==
    /\ canLock(mutex)
    /\ IF o.tif = "FOK" /\ ~canFullyFill(book, o)
       THEN /\ thr' = [thr EXCEPT ![t] = Returned([@ EXCEPT !.op = op,
                                                           !.o = o,
                                                           !.ret = "false"])]
            /\ UNCHANGED mutex
       ELSE /\ thr' = [thr EXCEPT ![t] = [@ EXCEPT !.pc = "match",
                                                   !.op = op, !.o = o,
                                                   !.remaining = o.quantity]]
            /\ mutex' = t
    /\ UNCHANGED <<book, observed>>

\* submitOrder(o, fills) called by thread t.
SubmitCall(t) ==
    /\ Starts(t)
    /\ \E o \in ThreadOrders(book) : enterSubmit(t, "submit", o)

\* matchLoop, one fill: the next fill of the walk made, the maker reduced
\* or retired, the fill handed to fillCb_.
MatchFill(t) ==
    /\ thr[t].pc = "match"
    /\ LET l == thr[t]
           pending == matchLoop(book, l.o, l.remaining).fills
       IN  /\ pending # <<>>
           /\ LET fillQty == Head(pending).quantity
              IN  /\ book' = matchLoop(book, l.o, fillQty).book
                  /\ thr' = [thr EXCEPT ![t] =
                                [l EXCEPT !.remaining = @ - fillQty,
                                          !.delivered = @ + 1]]
           /\ observed' = Append(observed, t)
    /\ UNCHANGED mutex

\* submitOrder after matchLoop: the residual rested or dropped, the
\* statistics updated, the lock given back.
MatchReturn(t) ==
    /\ thr[t].pc = "match"
    /\ LET l == thr[t]
           m == [book |-> book, remaining |-> l.remaining, fills |-> <<>>]
           r == afterMatch(m, l.o)
       IN  /\ matchLoop(book, l.o, l.remaining).fills = <<>>
           /\ book' = r.book
           /\ thr' = [thr EXCEPT ![t] =
                         Returned([l EXCEPT
                             !.ret = Result(r.ret),
                             !.rested = (r.reached = "processed"
                                            /\ l.remaining > 0)])]
    /\ mutex' = NoThread
    /\ UNCHANGED observed

\* cancelOrder(orderId) called by thread t.
CancelCall(t) ==
    /\ Starts(t)
    /\ canLock(mutex)
    /\ \E orderId \in Ids :
           LET r == cancelOrder(book, orderId)
           IN  /\ book' = r.book
               /\ thr' = [thr EXCEPT ![t] =
                             Returned([@ EXCEPT !.op = "cancel",
                                                !.orderId = orderId,
                                                !.ret = Result(r.ret)])]
    /\ UNCHANGED <<mutex, observed>>

\* modifyOrder, the lookup under the lock.  modifiedOrder is built from
\* originalOrder and the arguments alone.
ModifyLookup(t) ==
    /\ Starts(t)
    /\ canLock(mutex)
    /\ \E a \in ModifyArgs :
           LET l == [thr[t] EXCEPT !.op = "modify", !.orderId = a.orderId]
           IN  IF a.orderId \in DOMAIN book.orders
               THEN thr' = [thr EXCEPT ![t] =
                       [l EXCEPT
                           !.pc = "cancel",
                           !.found = TRUE,
                           !.originalOrder = book.orders[a.orderId],
                           !.o = [book.orders[a.orderId] EXCEPT
                                     !.priceTick = a.newPrice,
                                     !.quantity = a.newQty]]]
               ELSE thr' = [thr EXCEPT ![t] = Returned(l)]
    /\ UNCHANGED <<book, mutex, observed>>

\* modifyOrder, cancelOrder(orderId).
ModifyCancel(t) ==
    /\ thr[t].pc = "cancel"
    /\ canLock(mutex)
    /\ LET l == thr[t]
           r == cancelOrder(book, l.orderId)
       IN  /\ book' = r.book
           /\ thr' = [thr EXCEPT ![t] =
                         IF resubmits(l.found, r.ret)
                         THEN [l EXCEPT !.cancelled = r.ret,
                                        !.pc = "resubmit"]
                         ELSE Returned([l EXCEPT !.cancelled = r.ret])]
    /\ UNCHANGED <<mutex, observed>>

\* modifyOrder, submitOrder(modifiedOrder, &fills).
ModifyResubmit(t) ==
    /\ thr[t].pc = "resubmit"
    /\ enterSubmit(t, "modify", thr[t].o)

\* cancelAll, the ids collected under the lock.
CancelAllSnapshot(t) ==
    /\ Starts(t)
    /\ canLock(mutex)
    /\ \E side \in Sides :
           LET l == [thr[t] EXCEPT !.op = "cancelAll",
                                   !.toCancel = toCancelOf(book, side)]
           IN  thr' = [thr EXCEPT ![t] =
                          IF l.toCancel = {} THEN Returned(l)
                          ELSE [l EXCEPT !.pc = "cancelling"]]
    /\ UNCHANGED <<book, mutex, observed>>

\* cancelAll, one cancelOrder(id) of the loop.  The ids stand in the vector
\* in the order the unordered registry gave them: any order.
CancelAllNext(t) ==
    /\ thr[t].pc = "cancelling"
    /\ canLock(mutex)
    /\ \E id \in thr[t].toCancel :
           LET l == [thr[t] EXCEPT !.toCancel = @ \ {id}]
           IN  /\ book' = cancelOrder(book, id).book
               /\ thr' = [thr EXCEPT ![t] =
                             IF l.toCancel = {} THEN Returned(l) ELSE l]
    /\ UNCHANGED <<mutex, observed>>

NextConc ==
    \/ SetupSubmit
    \/ \E t \in Threads :
           \/ SubmitCall(t)
           \/ MatchFill(t)
           \/ MatchReturn(t)
           \/ CancelCall(t)
           \/ ModifyLookup(t)
           \/ ModifyCancel(t)
           \/ ModifyResubmit(t)
           \/ CancelAllSnapshot(t)
           \/ CancelAllNext(t)

SpecConc == Init /\ [][NextConc]_vars

\* ================================================================ claims
\* The submitOrder calls that can follow the current state: the direct
\* calls, and the resubmission inside each modifyOrder call, which finds
\* the book as modify's cancelOrder left it.  Each is [pre, o]: the book
\* the call finds and the order it is given.
DirectSubmissions == {[pre |-> book, o |-> o] : o \in Incoming(book)}

ModifySubmissions ==
    {[pre |-> cancelOrder(book, a.orderId).book,
      o |-> [book.orders[a.orderId] EXCEPT !.priceTick = a.newPrice,
                                           !.quantity = a.newQty]] :
        a \in {x \in ModifyArgs : x.orderId \in DOMAIN book.orders}}

Submissions == DirectSubmissions \cup ModifySubmissions

\* The calls among them that the specification takes.
Taken(r) == Capped(r.book)

FillQtys(fills) == [i \in 1..Len(fills) |-> fills[i].quantity]

FilledQty(r) == SumSeq(FillQtys(r.fills))

ContraLevels(b, o) == IF o.side = "Buy" THEN b.asks ELSE b.bids

OwnLevels(b, o) == IF o.side = "Buy" THEN b.bids ELSE b.asks

\* A contra level's price is marketable to the order's price.
Marketable(price, o) ==
    IF o.side = "Buy" THEN price <= o.priceTick ELSE price >= o.priceTick

\* The ids queued on one side, and the quantity resting there.
QueuedIds(levels) ==
    UNION {{levels[p][i] : i \in 1..Len(levels[p])} : p \in DOMAIN levels}

RECURSIVE SumQty(_, _)
SumQty(orders, ids) ==
    IF ids = {} THEN 0
    ELSE LET id == CHOOSE x \in ids : TRUE
         IN  orders[id].quantity + SumQty(orders, ids \ {id})

\* The quantity the claims call crossable: the summed quantity of the
\* contra-side resting orders of other owners at marketable prices.
CrossableIds(b, o) ==
    {id \in QueuedIds(ContraLevels(b, o)) :
        /\ Marketable(b.orders[id].priceTick, o)
        /\ b.orders[id].ownerId # o.ownerId}

CrossableQty(b, o) == SumQty(b.orders, CrossableIds(b, o))

\* The resting orders of the incoming order's owner.
OwnIds(b, o) == {id \in DOMAIN b.orders : b.orders[id].ownerId = o.ownerId}

\* C1: whenever both sides are non-empty, the highest resting bid price is
\* strictly lower than the lowest resting ask price.
NonCrossedBook ==
    (DOMAIN book.bids # {} /\ DOMAIN book.asks # {})
        => SetMax(DOMAIN book.bids) < SetMin(DOMAIN book.asks)

\* C5: orderCount_ equals the number of entries of the registry.
OrderCountAgrees == book.orderCount = Cardinality(DOMAIN book.orders)

\* C2: a FOK submission either fills its whole quantity, or emits no fill
\* and changes no resting order; and it never reaches the residual handling
\* with remaining > 0.
FOKAllOrNothing ==
    \A s \in Submissions :
        LET r == submitOrder(s.pre, s.o)
        IN  (s.o.tif = "FOK" /\ Taken(r)) =>
                /\ \/ FilledQty(r) = s.o.quantity
                   \/ r.fills = <<>> /\ r.book.orders = s.pre.orders
                /\ r.reached # "discarded"

\* C2, its first half alone: no FOK submission ends partially filled.
FOKNeverPartial ==
    \A s \in Submissions :
        LET r == submitOrder(s.pre, s.o)
        IN  (s.o.tif = "FOK" /\ Taken(r)) =>
                \/ FilledQty(r) = s.o.quantity
                \/ r.fills = <<>> /\ r.book.orders = s.pre.orders

\* C3: no fill of a submission has a maker of the taker's owner, and the
\* submission leaves every resting order of that owner as it was.
NoSelfTrade ==
    \A s \in Submissions :
        LET r == submitOrder(s.pre, s.o)
        IN  Taken(r) =>
                /\ \A i \in 1..Len(r.fills) :
                       s.pre.orders[r.fills[i].makerOrderId].ownerId
                           # s.o.ownerId
                /\ \A id \in OwnIds(s.pre, s.o) :
                       /\ id \in DOMAIN r.book.orders
                       /\ r.book.orders[id] = s.pre.orders[id]
                       /\ id \in QueuedIds(ContraLevels(r.book, s.o))
                            \cup QueuedIds(OwnLevels(r.book, s.o))

\* C3's case: the taker's own order rests at a marketable contra level, and
\* the submission fills against another owner's order.
NoSelfTradeWitness ==
    \E s \in Submissions :
        LET r == submitOrder(s.pre, s.o)
        IN  /\ Taken(r)
            /\ r.fills # <<>>
            /\ \E id \in OwnIds(s.pre, s.o) :
                   /\ id \in QueuedIds(ContraLevels(s.pre, s.o))
                   /\ Marketable(s.pre.orders[id].priceTick, s.o)

\* C4: every id of the registry has exactly one queue entry, on the side
\* and at the level its record names, and every queue entry refers to a
\* registry record with that id.
QueueAt(b, side, p) == IF side = "Buy" THEN b.bids[p] ELSE b.asks[p]

LevelKeys(b, side) == IF side = "Buy" THEN DOMAIN b.bids ELSE DOMAIN b.asks

\* The places <<side, price, index>> of the queue entries that point to id.
EntriesOf(b, id) ==
    UNION {UNION {{<<side, p, i>> : i \in {j \in 1..Len(QueueAt(b, side, p)) :
                                              QueueAt(b, side, p)[j] = id}} :
                      p \in LevelKeys(b, side)} :
               side \in Sides}

IndexAgreement ==
    /\ \A id \in DOMAIN book.orders :
           /\ book.orders[id].id = id
           /\ Cardinality(EntriesOf(book, id)) = 1
           /\ \A e \in EntriesOf(book, id) :
                  /\ e[1] = book.orders[id].side
                  /\ e[2] = book.orders[id].priceTick
    /\ \A id \in QueuedIds(book.bids) \cup QueuedIds(book.asks) :
           id \in DOMAIN book.orders

\* C4's case: a submission that retires one maker and partly fills the
\* next one, which stays queued.
IndexAgreementWitness ==
    \E o \in Incoming(book) :
        LET r == submitOrder(book, o)
        IN  /\ Taken(r)
            /\ Len(r.fills) = 2
            /\ r.fills[1].makerOrderId \notin DOMAIN r.book.orders
            /\ r.fills[2].makerOrderId \in DOMAIN r.book.orders

\* C6: submitOrder returns false exactly when the order is FOK and the
\* crossable quantity is less than its quantity.
SubmitReturn ==
    \A s \in Submissions :
        LET r == submitOrder(s.pre, s.o)
        IN  Taken(r) =>
                (r.ret = FALSE <=>
                    (s.o.tif = "FOK"
                        /\ CrossableQty(s.pre, s.o) < s.o.quantity))

\* C6's case: a FOK order is refused although orders of its own owner and of
\* others rest at marketable prices.
SubmitReturnWitness ==
    \E s \in Submissions :
        LET r == submitOrder(s.pre, s.o)
        IN  /\ Taken(r)
            /\ r.ret = FALSE
            /\ CrossableQty(s.pre, s.o) > 0
            /\ \E id \in OwnIds(s.pre, s.o) :
                   /\ id \in QueuedIds(ContraLevels(s.pre, s.o))
                   /\ Marketable(s.pre.orders[id].priceTick, s.o)

\* C7: a FOK submission whose crossable quantity is less than its quantity
\* emits no fill and leaves the whole book as it was.
RejectedFOKChangesNothing ==
    \A s \in Submissions :
        LET r == submitOrder(s.pre, s.o)
        IN  (Taken(r) /\ s.o.tif = "FOK"
                /\ CrossableQty(s.pre, s.o) < s.o.quantity) =>
                    r.fills = <<>> /\ r.book = s.pre

\* C7's case: a refused FOK order that the head of the best contra level
\* could have partly filled.
RejectedFOKWitness ==
    \E s \in Submissions :
        LET r == submitOrder(s.pre, s.o)
            contra == ContraLevels(s.pre, s.o)
        IN  /\ Taken(r)
            /\ s.o.tif = "FOK"
            /\ CrossableQty(s.pre, s.o) < s.o.quantity
            /\ matchLoop(s.pre, s.o, s.o.quantity).fills # <<>>
            /\ r.reached = "rejected"

\* C8: the fills of one submission go from the best contra price to worse
\* ones, and at one price in the arrival order of the level's queue, a later
\* maker being touched only once the earlier one is fully filled.
PosInQueue(queue, id) == CHOOSE i \in 1..Len(queue) : queue[i] = id

PriceTimeFills ==
    \A s \in Submissions :
        LET r == submitOrder(s.pre, s.o)
            contra == ContraLevels(s.pre, s.o)
        IN  Taken(r) =>
                \A i, j \in 1..Len(r.fills) :
                    i < j =>
                        LET f == r.fills[i]
                            g == r.fills[j]
                        IN  /\ IF s.o.side = "Buy"
                               THEN f.priceTick <= g.priceTick
                               ELSE f.priceTick >= g.priceTick
                            /\ f.priceTick = g.priceTick =>
                                   /\ PosInQueue(contra[f.priceTick],
                                                 f.makerOrderId)
                                        <= PosInQueue(contra[g.priceTick],
                                                      g.makerOrderId)
                                   /\ f.makerOrderId # g.makerOrderId =>
                                          f.makerOrderId
                                              \notin DOMAIN r.book.orders

\* C8's case: a sell that empties the best bid level, restarts from the new
\* best bid and fills there too.
PriceTimeFillsWitness ==
    \E s \in Submissions :
        LET r == submitOrder(s.pre, s.o)
        IN  /\ Taken(r)
            /\ s.o.side = "Sell"
            /\ Len(r.fills) = 2
            /\ r.fills[1].priceTick > r.fills[2].priceTick
            /\ r.fills[1].priceTick \notin DOMAIN r.book.bids

\* C9: the fills sum to at most the order's quantity, the contra side loses
\* exactly that sum, and the residual rests at the tail of the order's own
\* level for GTC/GFD and is dropped otherwise.
TotalQty(b, levels) == SumQty(b.orders, QueuedIds(levels))

Conservation ==
    \A s \in Submissions :
        LET r == submitOrder(s.pre, s.o)
            o == s.o
            residual == o.quantity - FilledQty(r)
            own == OwnLevels(s.pre, o)
            ownAfter == OwnLevels(r.book, o)
            retired == {r.fills[i].makerOrderId : i \in 1..Len(r.fills)}
                           \ DOMAIN r.book.orders
        IN  Taken(r) =>
                /\ FilledQty(r) <= o.quantity
                /\ TotalQty(r.book, ContraLevels(r.book, o))
                     = TotalQty(s.pre, ContraLevels(s.pre, o)) - FilledQty(r)
                /\ IF o.tif \in {"GTC", "GFD"} /\ residual > 0
                   THEN /\ DOMAIN ownAfter = DOMAIN own \cup {o.priceTick}
                        /\ \A p \in DOMAIN own \ {o.priceTick} :
                               ownAfter[p] = own[p]
                        /\ ownAfter[o.priceTick]
                             = (IF o.priceTick \in DOMAIN own
                                THEN own[o.priceTick] ELSE <<>>)
                                  \o <<o.id>>
                        /\ DOMAIN r.book.orders
                             = (DOMAIN s.pre.orders \ retired) \cup {o.id}
                        /\ r.book.orders[o.id]
                             = [o EXCEPT !.quantity = residual]
                   ELSE /\ ownAfter = own
                        /\ DOMAIN r.book.orders
                             = DOMAIN s.pre.orders \ retired

\* C9's case: a GFD order that is partly filled and rests its residual
\* behind an order already queued at its own level.
ConservationWitness ==
    \E s \in Submissions :
        LET r == submitOrder(s.pre, s.o)
        IN  /\ Taken(r)
            /\ s.o.tif = "GFD"
            /\ r.fills # <<>>
            /\ FilledQty(r) < s.o.quantity
            /\ s.o.priceTick \in DOMAIN OwnLevels(s.pre, s.o)

\* C10: every resting order has quantity > 0, and every fill of every
\* submission has quantity > 0, the orders of quantity 0 included.
PositiveQuantities ==
    /\ \A id \in DOMAIN book.orders : book.orders[id].quantity > 0
    /\ \A s \in Submissions :
           LET r == submitOrder(s.pre, s.o)
           IN  Taken(r) =>
                   \A i \in 1..Len(r.fills) : r.fills[i].quantity > 0

\* C10's case: a modify to quantity 0 at a price where another owner's
\* order is marketable: the call is processed, fills nothing and rests
\* nothing.
PositiveQuantitiesWitness ==
    \E s \in ModifySubmissions :
        LET r == submitOrder(s.pre, s.o)
        IN  /\ Taken(r)
            /\ s.o.quantity = 0
            /\ CrossableQty(s.pre, s.o) > 0
            /\ r.fills = <<>>
            /\ s.o.id \notin DOMAIN r.book.orders


\* The queue at price p of one side, empty when the side has no such level.
QueueOrEmpty(b, side, p) ==
    IF p \in LevelKeys(b, side) THEN QueueAt(b, side, p) ELSE <<>>

\* The entries of a queue as a set.
InQueue(queue) == {queue[i] : i \in 1..Len(queue)}

\* after is before without id: the other entries are all there, once each
\* and in the same relative order.
QueueWithout(before, after, id) ==
    /\ InQueue(after) = InQueue(before) \ {id}
    /\ Len(after) = Cardinality(InQueue(after))
    /\ \A x, y \in InQueue(after) :
           PosInQueue(before, x) < PosInQueue(before, y)
               <=> PosInQueue(after, x) < PosInQueue(after, y)

\* No contra level of book b is marketable to order o.
NonMarketable(b, o) ==
    \A p \in DOMAIN ContraLevels(b, o) : ~Marketable(p, o)

\* C11: cancelOrder(id) returns true exactly when id is in the registry.
\* Then id leaves the registry and its queue, a level is erased exactly when
\* it has no entry left, orderCount drops by one, and every other order
\* keeps its record, its level and its place relative to the others.
\* Otherwise the book is unchanged.  A non-marketable GTC order with a fresh
\* id, submitted and then cancelled, leaves bids, asks, the registry and
\* orderCount as they were.
CancelRemovesOne ==
    /\ \A id \in Ids :
           LET r == cancelOrder(book, id)
           IN  /\ r.ret <=> id \in DOMAIN book.orders
               /\ ~r.ret => r.book = book
               /\ r.ret =>
                    /\ DOMAIN r.book.orders = DOMAIN book.orders \ {id}
                    /\ \A x \in DOMAIN r.book.orders :
                           r.book.orders[x] = book.orders[x]
                    /\ r.book.orderCount = book.orderCount - 1
                    /\ EntriesOf(r.book, id) = {}
                    /\ \A side \in Sides :
                           /\ LevelKeys(r.book, side)
                                  = {p \in LevelKeys(book, side) :
                                        InQueue(QueueAt(book, side, p))
                                            # {id}}
                           /\ \A p \in LevelKeys(book, side) :
                                  QueueWithout(QueueAt(book, side, p),
                                               QueueOrEmpty(r.book, side, p),
                                               id)
    /\ \A o \in Incoming(book) :
           LET s == submitOrder(book, o)
               c == cancelOrder(s.book, o.id).book
           IN  (o.tif = "GTC" /\ NonMarketable(book, o) /\ Taken(s)) =>
                   /\ c.bids = book.bids
                   /\ c.asks = book.asks
                   /\ c.orders = book.orders
                   /\ c.orderCount = book.orderCount

\* C11's case: the cancelled order is at the front of a queue that holds
\* another order behind it, and a fresh GTC order rests behind a resting
\* order before it is cancelled.
CancelRemovesOneWitness ==
    /\ \E id \in DOMAIN book.orders :
           LET order == book.orders[id]
               r == cancelOrder(book, id)
           IN  /\ r.ret
               /\ Len(QueueAt(book, order.side, order.priceTick)) >= 2
               /\ Head(QueueAt(book, order.side, order.priceTick)) = id
               /\ order.priceTick \in LevelKeys(r.book, order.side)
    /\ \E o \in Incoming(book) :
           LET s == submitOrder(book, o)
           IN  /\ o.tif = "GTC" /\ NonMarketable(book, o) /\ Taken(s)
               /\ o.id \in DOMAIN s.book.orders
               /\ Len(QueueAt(s.book, o.side, o.priceTick)) >= 2

\* The modifyOrder calls that can follow the current state.
ModifyCall(a) == modifyOrder(book, a.orderId, a.newPrice, a.newQty)

\* Some marketable contra level of book b has at its front an order of
\* another owner than o's.
FillableHead(b, o) ==
    \E p \in DOMAIN ContraLevels(b, o) :
        /\ Marketable(p, o)
        /\ b.orders[Head(ContraLevels(b, o)[p])].ownerId # o.ownerId

\* C12: modifyOrder returns an empty list exactly when the id is not in the
\* registry: an unknown id gives an empty list and an unchanged book, and a
\* known id gives a non-empty list.
ModifyEmptyIffUnknown ==
    \A a \in ModifyArgs :
        LET r == ModifyCall(a)
        IN  Taken(r) =>
                /\ r.fills = <<>> <=> a.orderId \notin DOMAIN book.orders
                /\ a.orderId \notin DOMAIN book.orders => r.book = book

\* C12, amended: an unknown id gives an empty list and an unchanged book; a
\* known id gives the fills of the resubmission, a non-empty list exactly
\* when the new quantity is positive and the book left by the cancel has a
\* marketable contra level with another owner's order at its front.
ModifyFillsOfResubmission ==
    \A a \in ModifyArgs :
        LET r == ModifyCall(a)
            known == a.orderId \in DOMAIN book.orders
            modifiedOrder == [book.orders[a.orderId] EXCEPT
                                 !.priceTick = a.newPrice,
                                 !.quantity = a.newQty]
        IN  Taken(r) =>
                /\ ~known => r.fills = <<>> /\ r.book = book
                /\ known =>
                     (r.fills # <<>> <=>
                         /\ a.newQty > 0
                         /\ FillableHead(cancelOrder(book, a.orderId).book,
                                         modifiedOrder))

\* C12's case: the id is known and the list is empty, the order resting
\* again at the new price; and another known id whose list is not empty.
ModifyFillsOfResubmissionWitness ==
    /\ \E a \in ModifyArgs :
           LET r == ModifyCall(a)
           IN  /\ Taken(r)
               /\ a.orderId \in DOMAIN book.orders
               /\ r.fills = <<>>
               /\ a.orderId \in DOMAIN r.book.orders
               /\ r.book.orders[a.orderId].priceTick = a.newPrice
    /\ \E a \in ModifyArgs :
           LET r == ModifyCall(a)
           IN  /\ Taken(r)
               /\ a.orderId \in DOMAIN book.orders
               /\ r.fills # <<>>

\* The queue without its last entry.
Front(queue) == SubSeq(queue, 1, Len(queue) - 1)

\* C13: with no other thread, modifyOrder(id, p, q) of a known id leaves the
\* book, and returns the fills, of cancelOrder(id) followed by submitOrder
\* of the order that has the original id, side, ownerId, type and tif, the
\* price p and the quantity q.  When p is not marketable and q > 0 the order
\* ends last in the queue of level p, behind the orders that rested there.
ModifyIsCancelThenSubmit ==
    \A a \in ModifyArgs :
        a.orderId \in DOMAIN book.orders =>
            LET r == ModifyCall(a)
                original == book.orders[a.orderId]
                resubmitted == [id |-> a.orderId, side |-> original.side,
                                ownerId |-> original.ownerId,
                                type |-> original.type,
                                tif |-> original.tif,
                                priceTick |-> a.newPrice,
                                quantity |-> a.newQty]
                cancelled == cancelOrder(book, a.orderId).book
                sub == submitOrder(cancelled, resubmitted)
                side == original.side
            IN  Taken(r) =>
                    /\ r.book = sub.book
                    /\ r.fills = sub.fills
                    /\ (a.newQty > 0 /\ NonMarketable(cancelled, resubmitted))
                         =>
                           /\ a.newPrice \in LevelKeys(r.book, side)
                           /\ LET after == QueueAt(r.book, side, a.newPrice)
                              IN  /\ after[Len(after)] = a.orderId
                                  /\ QueueWithout(
                                         QueueOrEmpty(book, side, a.newPrice),
                                         Front(after), a.orderId)

\* C13's case: the order is at the front of a queue with another order
\* behind it, and a modify that keeps its price and quantity puts it behind
\* that order.
ModifyIsCancelThenSubmitWitness ==
    \E a \in ModifyArgs :
        /\ a.orderId \in DOMAIN book.orders
        /\ LET r == ModifyCall(a)
               original == book.orders[a.orderId]
               before == QueueAt(book, original.side, original.priceTick)
           IN  /\ Taken(r)
               /\ a.newPrice = original.priceTick
               /\ a.newQty = original.quantity
               /\ Len(before) >= 2
               /\ Head(before) = a.orderId
               /\ r.fills = <<>>
               /\ QueueAt(r.book, original.side, a.newPrice)
                      = Append(Tail(before), a.orderId)

OtherSide(side) == IF side = "Buy" THEN "Sell" ELSE "Buy"

LevelsOf(b, side) == IF side = "Buy" THEN b.bids ELSE b.asks

\* C14: with no other thread, cancelAll(side) leaves that side with no
\* level and the registry with no order of that side; the levels, queues and
\* records of the other side are unchanged, and orderCount drops by the
\* number of orders that rested on the cancelled side.
CancelAllEmptiesSide ==
    \A side \in Sides :
        LET after == cancelAll(book, side)
            cancelled == {id \in DOMAIN book.orders :
                             book.orders[id].side = side}
        IN  /\ LevelsOf(after, side) = EmptyMap
            /\ \A id \in DOMAIN after.orders : after.orders[id].side # side
            /\ LevelsOf(after, OtherSide(side))
                   = LevelsOf(book, OtherSide(side))
            /\ DOMAIN after.orders = DOMAIN book.orders \ cancelled
            /\ \A id \in DOMAIN after.orders :
                   after.orders[id] = book.orders[id]
            /\ after.orderCount = book.orderCount - Cardinality(cancelled)

\* C14's case: the cancelled side holds two orders at different levels and
\* the other side holds an order.
CancelAllEmptiesSideWitness ==
    \E side \in Sides :
        /\ Cardinality(DOMAIN LevelsOf(book, side)) >= 2
        /\ DOMAIN LevelsOf(book, OtherSide(side)) # {}
        /\ cancelAll(book, side).orderCount = book.orderCount - 2

\* Price p is strictly better than price q for the maker side that order o
\* trades against: the match loop visits p before q.
VisitedBefore(p, q, o) == IF o.side = "Buy" THEN p < q ELSE p > q

\* C16: once the match loop has found an order of the incoming owner at the
\* front of a marketable contra level, the submission has no further fill:
\* no fill is made at a level the loop visits after a level that the
\* submission leaves with an own order at its front.
SelfMatchBlocksAll ==
    \A s \in Submissions :
        LET r == submitOrder(s.pre, s.o)
            contraAfter == ContraLevels(r.book, s.o)
        IN  Taken(r) =>
                \A i \in 1..Len(r.fills) :
                    \A p \in DOMAIN contraAfter :
                        (Marketable(p, s.o)
                            /\ VisitedBefore(p, r.fills[i].priceTick, s.o))
                          => r.book.orders[Head(contraAfter[p])].ownerId
                                 # s.o.ownerId

\* C19: every submitOrder call that passes the FOK pre-check raises
\* ordersProcessed by exactly one, whether it ends fully filled, rested, or
\* with an IOC or FOK residual discarded.
ProcessedCountsEvery ==
    \A s \in Submissions :
        LET r == submitOrder(s.pre, s.o)
        IN  (Taken(r) /\ r.reached # "rejected") =>
                r.book.ordersProcessed = s.pre.ordersProcessed + 1

\* The two hints of a book.
Hints(b) == <<b.bestBidTick, b.bestAskTick>>

\* C20: bestBidTick_ never decreases and bestAskTick_ never increases; they
\* change only when an order is rested, never on a cancel or on fills; and
\* bestBidTick_ is at least the highest resting bid price when there are
\* bids, bestAskTick_ at most the lowest resting ask price when there are
\* asks.
HintsMonotoneBounds ==
    /\ DOMAIN book.bids # {} => book.bestBidTick >= SetMax(DOMAIN book.bids)
    /\ DOMAIN book.asks # {} => book.bestAskTick <= SetMin(DOMAIN book.asks)
    /\ \A s \in Submissions :
           LET r == submitOrder(s.pre, s.o)
           IN  Taken(r) =>
                   /\ r.book.bestBidTick >= s.pre.bestBidTick
                   /\ r.book.bestAskTick <= s.pre.bestAskTick
                   /\ Hints(r.book) # Hints(s.pre) =>
                          /\ r.reached = "processed"
                          /\ r.remaining > 0
                          /\ s.o.id \in DOMAIN r.book.orders
    /\ \A id \in Ids : Hints(cancelOrder(book, id).book) = Hints(book)
    /\ \A side \in Sides : Hints(cancelAll(book, side)) = Hints(book)
    /\ \A a \in ModifyArgs :
           LET r == ModifyCall(a)
           IN  Taken(r) =>
                   /\ r.book.bestBidTick >= book.bestBidTick
                   /\ r.book.bestAskTick <= book.bestAskTick

\* C20's case: the bid hint is strictly above the best resting bid, the
\* better bid having been rested and then cancelled or filled, and a
\* submission that rests an ask lowers the ask hint.
HintsMonotoneBoundsWitness ==
    /\ DOMAIN book.bids # {} /\ book.bestBidTick > SetMax(DOMAIN book.bids)
    /\ \E s \in Submissions :
           LET r == submitOrder(s.pre, s.o)
           IN  /\ Taken(r)
               /\ r.book.bestAskTick < s.pre.bestAskTick

\* Thread t is between the first and the last fill of its submission.
MidRun(t) ==
    /\ thr[t].pc = "match"
    /\ thr[t].delivered > 0
    /\ matchLoop(book, thr[t].o, thr[t].remaining).fills # <<>>

\* The fills of each thread's submission stand together in the sequence.
OneRunEach(seq) ==
    \A i, j, k \in 1..Len(seq) :
        (i < j /\ j < k /\ seq[i] = seq[k]) => seq[j] = seq[i]

\* While thread t is within its run, a step that is not t's neither delivers
\* a fill nor changes the book.
NoForeignEffect ==
    \A t \in Threads :
        (MidRun(t) /\ thr'[t] = thr[t]) =>
            (book' = book /\ observed' = observed)

\* C15: in every interleaving of threads that call submitOrder, cancelOrder,
\* modifyOrder and cancelAll, the fills of one submitOrder call (a modify's
\* resubmission included) reach the fill observer as one contiguous run,
\* and between the first and the last fill of the run no other operation
\* delivers a fill or changes the book.
FillsAtomic == [](OneRunEach(observed)) /\ [][NoForeignEffect]_vars

\* C15's case: a thread is within its run, one fill delivered and one to
\* come, while another thread is part-way through a modify or a cancelAll.
FillsAtomicWitness ==
    \E t, u \in Threads :
        /\ t # u
        /\ MidRun(t)
        /\ thr[u].pc \in {"cancel", "resubmit", "cancelling"}

\* Thread t has returned from a modifyOrder that found its order and
\* resubmitted it with a positive quantity at a price that is not
\* marketable.
QuietModifyDone(t) ==
    /\ thr[t].pc = "done"
    /\ thr[t].op = "modify"
    /\ thr[t].found
    /\ thr[t].o.quantity > 0
    /\ thr[t].delivered = 0
    /\ NonMarketable(book, thr[t].o)

\* C17: when two threads have each called modifyOrder on the same resting
\* id, with new prices that are not marketable and positive quantities, and
\* both calls have returned, the id has at most one queue entry, the
\* registry holds its record at that entry's side and price, and orderCount
\* equals the size of the registry.
ConcurrentModifiesAgree ==
    \A t, u \in Threads :
        (t # u /\ QuietModifyDone(t) /\ QuietModifyDone(u)
              /\ thr[t].orderId = thr[u].orderId) =>
            LET id == thr[t].orderId
            IN  /\ Cardinality(EntriesOf(book, id)) <= 1
                /\ id \in DOMAIN book.orders
                /\ \A e \in EntriesOf(book, id) :
                       /\ e[1] = book.orders[id].side
                       /\ e[2] = book.orders[id].priceTick
                /\ book.orderCount = Cardinality(DOMAIN book.orders)

\* Thread c's cancelOrder of the order that thread m's modifyOrder looked
\* up has returned true, and m's own cancelOrder then found nothing.
CancelWonRace(m, c) ==
    /\ m # c
    /\ thr[c].pc = "done" /\ thr[c].op = "cancel" /\ thr[c].ret = "true"
    /\ thr[m].op = "modify" /\ thr[m].found
    /\ thr[m].orderId = thr[c].orderId
    /\ thr[m].pc \in {"resubmit", "match", "done"}
    /\ ~thr[m].cancelled

\* C18: when another thread's cancelOrder(id) returns true after
\* modifyOrder(id, p, q) looked the order up and before modify's own cancel,
\* modify's cancel does nothing and modify still submits the order: it has
\* the original id, side, ownerId, type and tif, and once modify has
\* returned its submitOrder returned true and the order rested or was
\* filled, unless its quantity was 0.
ModifyRacingCancel ==
    \A m, c \in Threads :
        CancelWonRace(m, c) =>
            LET l == thr[m]
            IN  /\ l.o.id = l.orderId
                /\ l.pc # "done" =>
                       /\ l.o.side = l.originalOrder.side
                       /\ l.o.ownerId = l.originalOrder.ownerId
                       /\ l.o.type = l.originalOrder.type
                       /\ l.o.tif = l.originalOrder.tif
                       /\ l.originalOrder.id = l.orderId
                /\ l.pc = "done" =>
                       /\ l.ret = "true"
                       /\ l.rested \/ l.delivered > 0 \/ l.o.quantity = 0

\* C18's case: the cancel returned true, the modify then returned, and the
\* cancelled order rests again.
ModifyRacingCancelWitness ==
    \E m, c \in Threads :
        /\ CancelWonRace(m, c)
        /\ thr[m].pc = "done"
        /\ thr[m].rested
        /\ thr[m].orderId \in DOMAIN book.orders
        /\ EntriesOf(book, thr[m].orderId) # {}

====
